---- MODULE Spec2Model ----
(***************************************************************************)
(* youtube_webhook.py: a Discord bot and a FastAPI application that share  *)
(* one asyncio event loop.  Chat commands (monitor add/remove) mutate the  *)
(* list YOUTUBE_CHANNELS and rewrite accounts.json; the status command     *)
(* subscribes every entry of the list again; the hub calls                 *)
(* GET /webhook (verification) and POST /webhook (content delivery).       *)
(*                                                                         *)
(* A handler runs without interruption from one `await` to the next.       *)
(* requests.post and time.sleep are blocking calls: while a command is in  *)
(* one of them no other handler runs (LoopBusy).                           *)
(***************************************************************************)
EXTENDS Integers, Sequences, FiniteSets, TLC

VARIABLES
    YOUTUBE_CHANNELS,   \* the in-memory list of monitored channel ids
    accounts_json,      \* accounts.json: missing, corrupt, or holding the "youtube" list
    sent_messages,      \* the dedup cache: the message keys recorded so far
    now,                \* time.time(), in seconds
    cmd,                \* the chat-command handlers (coroutines of the bot)
    hook,               \* the HTTP request handlers (coroutines of the app)
    notified,           \* the calls of channel.send made so far, in order,
                        \* and what became of each
    last,               \* history: the last monitor command received (the log
                        \* line of monitor), the list it found, whether skipped
    history,            \* history: the list loaded at start, the mutations of
                        \* the list carried out, the monitor commands received
    budget              \* commands, HTTP requests and clock jumps still to come

vars == <<YOUTUBE_CHANNELS, accounts_json, sent_messages, now, cmd, hook,
          notified, last, history, budget>>

----------------------------------------------------------------------------
(* Bounds of the model *)

MaxEvents == 2          \* arrivals (commands, HTTP requests, clock jumps) in Spec
MaxCmds == 3            \* arrivals (commands, clock jumps) in SpecCommands
MaxSweepEvents == 2     \* arrivals (commands, sweeps, clock jumps) in SpecStatus

(* Program constants *)

RETRIES == 3            \* subscribe_channel(channel_id, retries=3, ...)
DELAY == 5              \* subscribe_channel(..., delay=5)
ACCEPT_PAUSE == 2       \* time.sleep(2) after an accepted subscription
BUCKET_SECONDS == 10    \* time.time() // 10
ACCEPTED == 202         \* response.status_code == 202
HTTP_OK == 200          \* the status FastAPI gives a returned value

(* Inputs *)

CmdTasks == {1, 2}                          \* command handlers in flight
HookTasks == {1, 2}                         \* request handlers in flight
CHANNEL_ID == "chat1"                       \* the destination channel
NONE == "<None>"                            \* Python's None
InitLists == {<<"c", "a">>}                 \* lists found in accounts.json
AddRemove == {<<"chat1", "add", "youtube", "b">>, <<"chat1", "remove", "youtube", "b">>,
              <<"chat1", "remove", "youtube", "c">>}
\* the commands received: (chat channel, action, platform, channel id)
Commands ==
    {<<"chat1", "add", "youtube", "b">>, <<"chat1", "remove", "youtube", "b">>,
     <<"chat1", "remove", "youtube", "c">>, <<"chat2", "add", "youtube", "b">>,
     <<"chat1", "add", "Twitch", "b">>, <<"chat1", "list", "youtube", "b">>}
\* what requests.post gives: a response with a status, or a RequestException
HubOutcomes == {[exc |-> FALSE, status |-> 202], [exc |-> FALSE, status |-> 500],
                [exc |-> TRUE, status |-> 0]}
SaveOutcomes == {"written", "open_fails", "dump_fails"}
Chats == {"chat1"}                          \* the chat channels status comes from
Challenges == {<<"a", "b">>, <<"\"">>}

----------------------------------------------------------------------------
(* Pure helpers *)

Range(s) == {s[i] : i \in 1..Len(s)}

NoDup(s) == \A i, j \in 1..Len(s) : s[i] = s[j] => i = j

\* str.lower() on the strings the commands carry
Lower(s) ==
    CASE s = "Twitch" -> "twitch"
      [] s = "YouTube" -> "youtube"
      [] s = "Add" -> "add"
      [] OTHER -> s

\* f"{x}": None is written as the text None
Str(x) == IF x = NONE THEN "None" ELSE x

\* (mutant) the time is not cut into buckets
Bucket_exact(t) == t

\* time.time() // 10
Bucket(t) == t \div BUCKET_SECONDS

\* list.append(x)
ListAppend(l, x) == Append(l, x)

\* (mutant) the first element is dropped, whatever it is
ListRemove_head(l, x) == Tail(l)

\* list.remove(x): drops the first occurrence
ListRemove(l, x) ==
    LET i == CHOOSE k \in 1..Len(l) : l[k] = x /\ \A j \in 1..(k - 1) : l[j] # x
    IN  SubSeq(l, 1, i - 1) \o SubSeq(l, i + 1, Len(l))


----------------------------------------------------------------------------
(* accounts.json *)

Doc(state, youtube) == [state |-> state, youtube |-> youtube]

InitDocs == {Doc("missing", << >>)} \cup {Doc("json", l) : l \in InitLists}

\* load_accounts(): the "youtube" list of the document; [] when the file is
\* missing or cannot be parsed
load_accounts(doc) == IF doc.state = "json" THEN doc.youtube ELSE << >>

\* save_accounts(accounts): open(..., "w") truncates the file, json.dump writes
\* it; any exception is logged and swallowed.  outcome is what the file system
\* does: "open_fails" leaves the old file, "dump_fails" leaves a truncated one.
save_accounts(doc, accounts, outcome) ==
    CASE outcome = "written" -> Doc("json", accounts)
      [] outcome = "open_fails" -> doc
      [] OTHER -> Doc("corrupt", << >>)

----------------------------------------------------------------------------
(* The dedup cache *)

\* (str(channel.id), category, time.time() // 10)
MessageKey(ch, category, t) == <<ch, category, Bucket(t)>>

\* f"monitor-{action}-{platform}-{channel_id}"
MonitorCategory(action, platform, id) == <<"monitor", action, platform, id>>

\* the name of the status command, which is its dedup category
STATUS == "status"

StatusCategory == <<STATUS, "", "", "">>

\* (mutant) the category does not name the video
NotificationCategory_plain(video_id) == <<"notification", "", "", "">>

\* f"notification-{video_id}"
NotificationCategory(video_id) == <<"notification", Str(video_id), "", "">>

\* (mutant) the key is not kept
Record_none(keys, key) == keys

\* sent_messages[...].append((message_key, nonce))
Record(keys, key) == keys \cup {key}

\* (mutant) the duplicate test never matches
Seen_never(key) == FALSE

\* any(key == message_key for key, _ in sent_messages[...])
Seen(key) == key \in sent_messages


----------------------------------------------------------------------------
(* Chat commands: monitor(ctx, action, platform, channel_id) *)

\* no command received yet
NoCommand == [ch |-> "", action |-> "", platform |-> "", id |-> "", at |-> 0,
              before |-> << >>, skipped |-> FALSE]

\* attempt, posts, delays and accepted belong to the running call of
\* subscribe_channel; i and lines to the loop of status
IdleCmd == [pc |-> "idle", ch |-> "", action |-> "", platform |-> "", id |-> "",
            attempt |-> 0, posts |-> 0, delays |-> 0, accepted |-> FALSE,
            reply |-> NONE, in_try |-> FALSE, i |-> 0, lines |-> << >>]

\* A command sits in a blocking call (requests.post, time.sleep): the event
\* loop runs nothing else until the call returns.
Blocking(c) == c.pc \in {"post", "sleep_ok", "sleep_retry", "unsub"}

LoopBusy == \E t \in CmdTasks : Blocking(cmd[t])

\* A handler that has returned is gone before anything else runs: a return is
\* the end of the step that reached it.
Settled ==
    /\ \A t \in CmdTasks : cmd[t].pc # "returned"
    /\ \A h \in HookTasks : hook[h].pc # "respond"

\* a new handler takes the lowest free slot
FreeCmd(t) == cmd[t].pc = "idle" /\ \A u \in CmdTasks : u < t => cmd[u].pc # "idle"

\* (mutant) the membership test never finds the id
Monitored_never(id, channels) == FALSE

\* (mutant) only the first entry of the list is looked at
Monitored_first(id, channels) == channels # << >> /\ channels[1] = id

\* `channel_id in YOUTUBE_CHANNELS`
Monitored(id, channels) == id \in Range(channels)

\* `await ctx.send(text)`: the handler waits for the chat system
Reply(c, text) == [c EXCEPT !.pc = "send", !.reply = text]

\* a call of subscribe_channel(id) begins: the first pass of its loop
Subscribe(c, id) ==
    [c EXCEPT !.pc = "post", !.id = id, !.attempt = 0, !.posts = 0,
              !.delays = 0, !.accepted = FALSE]

\* the log line of monitor (line 241), with the 10 s bucket it arrives in
Received(ch, action, platform, id, t) ==
    <<ch, action, platform, id, t \div BUCKET_SECONDS>>

\* a mutation of the list that was carried out
Mutation(action, id) == [action |-> action, id |-> id]

\* monitor, from its entry to its first blocking call or await.
\* save is what the file system does with the write of accounts.json.
monitor(t, ch, action, platform, id, save) ==
    /\ FreeCmd(t)
    /\ ~LoopBusy /\ Settled
    /\ budget > 0
    /\ budget' = budget - 1
    /\ LET key == MessageKey(ch, MonitorCategory(action, platform, id), now)
           c == [IdleCmd EXCEPT !.ch = ch, !.action = action,
                                !.platform = platform, !.id = id]
       IN  IF Seen(key)
           THEN \* skipped as a duplicate: returns without a reply
                /\ cmd' = [cmd EXCEPT ![t] = [c EXCEPT !.pc = "returned"]]
                /\ UNCHANGED <<YOUTUBE_CHANNELS, accounts_json, sent_messages>>
           ELSE /\ sent_messages' = Record(sent_messages, key)
                /\ IF Lower(platform) # "youtube"
                   THEN /\ cmd' = [cmd EXCEPT ![t] = Reply(c, "unsupported_platform")]
                        /\ UNCHANGED <<YOUTUBE_CHANNELS, accounts_json>>
                   ELSE IF Lower(action) = "add"
                   THEN IF Monitored(id, YOUTUBE_CHANNELS)
                        THEN /\ cmd' = [cmd EXCEPT ![t] = Reply(c, "already_monitored")]
                             /\ UNCHANGED <<YOUTUBE_CHANNELS, accounts_json>>
                        ELSE /\ YOUTUBE_CHANNELS' = ListAppend(YOUTUBE_CHANNELS, id)
                             /\ accounts_json' =
                                    save_accounts(accounts_json, YOUTUBE_CHANNELS', save)
                             /\ cmd' = [cmd EXCEPT ![t] = Subscribe(c, id)]
                   ELSE IF Lower(action) = "remove"
                   THEN IF ~Monitored(id, YOUTUBE_CHANNELS)
                        THEN /\ cmd' = [cmd EXCEPT ![t] = Reply(c, "not_monitored")]
                             /\ UNCHANGED <<YOUTUBE_CHANNELS, accounts_json>>
                        ELSE /\ YOUTUBE_CHANNELS' = ListRemove(YOUTUBE_CHANNELS, id)
                             /\ accounts_json' =
                                    save_accounts(accounts_json, YOUTUBE_CHANNELS', save)
                             /\ cmd' = [cmd EXCEPT ![t] =
                                            [c EXCEPT !.pc = "unsub", !.in_try = TRUE]]
                   ELSE /\ cmd' = [cmd EXCEPT ![t] = Reply(c, "invalid_action")]
                        /\ UNCHANGED <<YOUTUBE_CHANNELS, accounts_json>>
    /\ last' = [ch |-> ch, action |-> action, platform |-> platform, id |-> id,
                 at |-> now, before |-> YOUTUBE_CHANNELS,
                 skipped |-> Seen(MessageKey(ch, MonitorCategory(action, platform, id), now))]
    /\ history' =
           [history EXCEPT
               !.received = @ \cup {Received(ch, action, platform, id, now)},
               !.applied = IF YOUTUBE_CHANNELS' # YOUTUBE_CHANNELS
                           THEN Append(@, Mutation(Lower(action), id))
                           ELSE @]
    /\ UNCHANGED <<now, hook, notified>>

\* one line of the report of status: the entry, what subscribe_channel
\* returned for it, and the requests it posted
Line(c, ok) == [id |-> c.id, ok |-> ok, posts |-> c.posts]

\* (mutant) status gives up its loop at the first entry that fails
Returned_stop(c, ok, channels) ==
    IF c.action = STATUS
    THEN LET d == [c EXCEPT !.lines = Append(@, Line(c, ok))]
         IN  IF c.i < Len(channels) /\ ok
             THEN [Subscribe(d, channels[c.i + 1]) EXCEPT !.i = c.i + 1]
             ELSE Reply(d, "report")
    ELSE Reply(c, IF ok THEN "added" ELSE "subscribe_failed")

\* subscribe_channel returns ok to its caller.  monitor sends the reply of
\* its add; status adds its line for the entry and goes on with the next
\* entry of YOUTUBE_CHANNELS or, the list exhausted, sends its report.
Returned(c, ok, channels) ==
    IF c.action = STATUS
    THEN LET d == [c EXCEPT !.lines = Append(@, Line(c, ok))]
         IN  IF c.i < Len(channels)
             THEN [Subscribe(d, channels[c.i + 1]) EXCEPT !.i = c.i + 1]
             ELSE Reply(d, "report")
    ELSE Reply(c, IF ok THEN "added" ELSE "subscribe_failed")

\* `for attempt in range(retries)`: the next pass, or, the range exhausted,
\* subscribe_channel returns False
NextAttempt(c, channels) ==
    IF c.attempt + 1 < RETRIES
    THEN [c EXCEPT !.pc = "post", !.attempt = @ + 1]
    ELSE Returned(c, FALSE, channels)

\* (mutant) the delay follows every failed attempt, the last one too
SleepsBeforeRetry_always(attempt) == TRUE

\* `if attempt < retries - 1: time.sleep(delay)`
SleepsBeforeRetry(attempt) == attempt < RETRIES - 1

\* subscribe_channel(channel_id): the requests.post of one pass of the loop
\* and what follows it up to the next blocking call; r is the hub's answer.
subscribe_channel(t, r) ==
    /\ cmd[t].pc = "post"
    /\ LET c == [cmd[t] EXCEPT !.posts = @ + 1]
       IN  cmd' = [cmd EXCEPT ![t] =
               IF ~r.exc /\ r.status = ACCEPTED
               THEN [c EXCEPT !.pc = "sleep_ok", !.accepted = TRUE]
               ELSE IF SleepsBeforeRetry(c.attempt)
               THEN [c EXCEPT !.pc = "sleep_retry"]
               ELSE NextAttempt(c, YOUTUBE_CHANNELS)]
    /\ UNCHANGED <<YOUTUBE_CHANNELS, accounts_json, sent_messages, now, hook,
                   notified, last, history, budget>>

\* time.sleep(2) after an accepted subscription, then return True;
\* time.sleep(delay) before the next pass.
subscribe_sleep(t) ==
    /\ cmd[t].pc \in {"sleep_ok", "sleep_retry"}
    /\ IF cmd[t].pc = "sleep_ok"
       THEN /\ now' = now + ACCEPT_PAUSE
            /\ cmd' = [cmd EXCEPT ![t] = Returned(cmd[t], TRUE, YOUTUBE_CHANNELS)]
       ELSE /\ now' = now + DELAY
            /\ cmd' = [cmd EXCEPT ![t] =
                   NextAttempt([cmd[t] EXCEPT !.delays = @ + 1], YOUTUBE_CHANNELS)]
    /\ UNCHANGED <<YOUTUBE_CHANNELS, accounts_json, sent_messages, hook,
                   notified, last, history, budget>>

\* status, from its entry to its first blocking call or await: the report of
\* an empty list, or the call of subscribe_channel for the first entry
\* (named status_sweep here: status is also the field of a response)
status_sweep(t, ch) ==
    /\ FreeCmd(t)
    /\ ~LoopBusy /\ Settled
    /\ budget > 0
    /\ budget' = budget - 1
    /\ LET key == MessageKey(ch, StatusCategory, now)
           c == [IdleCmd EXCEPT !.ch = ch, !.action = STATUS]
       IN  IF Seen(key)
           THEN /\ cmd' = [cmd EXCEPT ![t] = [c EXCEPT !.pc = "returned"]]
                /\ UNCHANGED sent_messages
           ELSE /\ sent_messages' = Record(sent_messages, key)
                /\ cmd' = [cmd EXCEPT ![t] =
                       IF YOUTUBE_CHANNELS = << >>
                       THEN Reply(c, "none_monitored")
                       ELSE [Subscribe(c, YOUTUBE_CHANNELS[1]) EXCEPT !.i = 1]]
    /\ UNCHANGED <<YOUTUBE_CHANNELS, accounts_json, now, hook, notified, last, history>>

\* the unsubscribe request of monitor remove, and the reply chosen from it
unsubscribe(t, r) ==
    /\ cmd[t].pc = "unsub"
    /\ LET c == [cmd[t] EXCEPT !.posts = @ + 1]
       IN  cmd' = [cmd EXCEPT ![t] =
               IF r.exc
               THEN [Reply(c, "unsubscribe_error") EXCEPT !.in_try = FALSE]
               ELSE IF r.status = ACCEPTED
               THEN Reply(c, "removed")
               ELSE Reply(c, "unsubscribe_failed")]
    /\ UNCHANGED <<YOUTUBE_CHANNELS, accounts_json, sent_messages, now, hook,
                   notified, last, history, budget>>

\* `await ctx.send(...)` completes: delivered, or the chat system raises.  In
\* the try block of remove the exception is caught and an error reply is
\* sent; everywhere else it ends the handler.
ctx_send(t, ok) ==
    /\ cmd[t].pc = "send"
    /\ ~LoopBusy /\ Settled
    /\ cmd' = [cmd EXCEPT ![t] =
           IF ~ok /\ cmd[t].in_try
           THEN [Reply(cmd[t], "unsubscribe_error") EXCEPT !.in_try = FALSE]
           ELSE IdleCmd]
    /\ UNCHANGED <<YOUTUBE_CHANNELS, accounts_json, sent_messages, now, hook,
                   notified, last, history, budget>>

\* a handler that returned without awaiting anything is gone
cmd_return(t) ==
    /\ cmd[t].pc = "returned"
    /\ cmd' = [cmd EXCEPT ![t] = IdleCmd]
    /\ UNCHANGED <<YOUTUBE_CHANNELS, accounts_json, sent_messages, now, hook,
                   notified, last, history, budget>>


----------------------------------------------------------------------------
(* The XML body of a content delivery *)

\* An element of the parsed document, in document order: its namespace, its
\* tag, its text (NONE when empty) and whether it stands inside <entry>.
Elem(ns, tag, text, entry) == [ns |-> ns, tag |-> tag, text |-> text, entry |-> entry]

FEED_TITLE == "YouTube video feed"

XmlBody(elems) == [wellformed |-> TRUE, elems |-> elems]

Malformed == [wellformed |-> FALSE, elems |-> << >>]

\* <feed><entry><yt:videoId>v</yt:videoId><title>t</title></entry></feed>
EntryOnly(v, t) ==
    XmlBody(<<Elem("yt", "videoId", v, TRUE), Elem("atom", "title", t, TRUE)>>)

\* the same entry in a feed that has a title of its own before the entry
TitledFeed(v, t) ==
    XmlBody(<<Elem("atom", "title", FEED_TITLE, FALSE),
              Elem("yt", "videoId", v, TRUE), Elem("atom", "title", t, TRUE)>>)

Bodies ==
    {Malformed}
    \cup {EntryOnly("v1", "Hello"), EntryOnly("v1", NONE), TitledFeed("v2", "Hello")}
    \cup {XmlBody(<<Elem("yt", "videoId", "v1", TRUE)>>),
          XmlBody(<<Elem("atom", "title", "Hello", TRUE)>>)}

\* (mutant) any element matches, whatever its name
Find_any(elems, ns, tag) == IF elems = << >> THEN 0 ELSE 1

\* root.find(".//ns:tag", namespaces): the first matching element in document
\* order, 0 for None
Find(elems, ns, tag) ==
    IF \E i \in 1..Len(elems) : elems[i].ns = ns /\ elems[i].tag = tag
    THEN CHOOSE i \in 1..Len(elems) :
            /\ elems[i].ns = ns /\ elems[i].tag = tag
            /\ \A j \in 1..(i - 1) : ~(elems[j].ns = ns /\ elems[j].tag = tag)
    ELSE 0

\* `if video_id_elem is None or title_elem is None`
MissingField(vi, ti) == vi = 0 \/ ti = 0

\* f"New YouTube video: {title}\nhttps://www.youtube.com/watch?v={video_id}"
Message(title, video_id) ==
    <<"New YouTube video: ", Str(title), "\n",
      "https://www.youtube.com/watch?v=", Str(video_id)>>

----------------------------------------------------------------------------
(* JSON, as FastAPI's default JSONResponse renders a returned value *)

RECURSIVE JsonEscape(_)
JsonEscape(s) ==
    IF s = << >> THEN << >>
    ELSE (IF Head(s) \in {"\"", "\\"} THEN <<"\\", Head(s)>> ELSE <<Head(s)>>)
         \o JsonEscape(Tail(s))

\* json.dumps of a str: quoted and escaped
JsonString(s) == <<"\"">> \o JsonEscape(s) \o <<"\"">>


----------------------------------------------------------------------------
(* HTTP handlers *)

NoResponse == [http |-> 0, status |-> "", message |-> "", text |-> << >>]

\* a dict returned by the handler: FastAPI answers 200 with it as JSON object
JsonObject(status, message) ==
    [http |-> HTTP_OK, status |-> status, message |-> message, text |-> << >>]

\* a str returned by the handler: no response_class is given to @app.get, so
\* FastAPI answers 200 with the JSON rendering of the string
JsonResponse(value) ==
    [http |-> HTTP_OK, status |-> "", message |-> "", text |-> JsonString(value)]

\* n: the place in notified of the send the handler awaits; skipped: the
\* handler found its key in the cache (the log line 325)
IdleHook == [pc |-> "idle", method |-> "", body |-> Malformed, challenge |-> << >>,
             message |-> << >>, n |-> 0, skipped |-> FALSE, resp |-> NoResponse]

FreeHook(h) == hook[h].pc = "idle" /\ \A u \in HookTasks : u < h => hook[u].pc # "idle"

\* the handler returns value: the response goes out when the loop is free
Return(k, value) == [k EXCEPT !.pc = "respond", !.resp = value]

\* GET /webhook?hub.challenge=c
webhook_verify(h, c) ==
    /\ FreeHook(h)
    /\ ~LoopBusy /\ Settled
    /\ budget > 0
    /\ budget' = budget - 1
    /\ hook' = [hook EXCEPT ![h] =
           Return([IdleHook EXCEPT !.method = "GET", !.challenge = c],
                  JsonResponse(c))]
    /\ UNCHANGED <<YOUTUBE_CHANNELS, accounts_json, sent_messages, now, cmd, notified,
                   last, history>>

\* POST /webhook, from the body read to `await channel.send(...)` or to the
\* return.  found: whether bot.get_channel(CHANNEL_ID) knows the channel.
handle_webhook(h, body, found) ==
    /\ FreeHook(h)
    /\ ~LoopBusy /\ Settled
    /\ budget > 0
    /\ budget' = budget - 1
    /\ LET k == [IdleHook EXCEPT !.method = "POST", !.body = body]
           vi == Find(body.elems, "yt", "videoId")
           ti == Find(body.elems, "atom", "title")
       IN  IF ~body.wellformed
           THEN \* ET.ParseError
                /\ hook' = [hook EXCEPT ![h] = Return(k, JsonObject("error", "Invalid XML"))]
                /\ UNCHANGED <<sent_messages, notified>>
           ELSE IF MissingField(vi, ti)
           THEN /\ hook' = [hook EXCEPT ![h] =
                       Return(k, JsonObject("error", "Invalid webhook data"))]
                /\ UNCHANGED <<sent_messages, notified>>
           ELSE LET video_id == body.elems[vi].text
                    title == body.elems[ti].text
                    key == MessageKey(CHANNEL_ID, NotificationCategory(video_id), now)
                IN  IF ~found
                    THEN /\ hook' = [hook EXCEPT ![h] = Return(k, JsonObject("ok", ""))]
                         /\ UNCHANGED <<sent_messages, notified>>
                    ELSE IF Seen(key)
                    THEN /\ hook' = [hook EXCEPT ![h] =
                                Return([k EXCEPT !.skipped = TRUE], JsonObject("ok", ""))]
                         /\ UNCHANGED <<sent_messages, notified>>
                    ELSE /\ sent_messages' = Record(sent_messages, key)
                         /\ notified' = Append(notified,
                                [key |-> key, message |-> Message(title, video_id),
                                 outcome |-> "awaited"])
                         /\ hook' = [hook EXCEPT ![h] =
                                [k EXCEPT !.pc = "sending",
                                          !.message = Message(title, video_id),
                                          !.n = Len(notified) + 1]]
    /\ UNCHANGED <<YOUTUBE_CHANNELS, accounts_json, now, cmd, last, history>>

\* what handle_webhook returns once `await channel.send(...)` is over:
\* delivered, or the chat system raised and `except Exception` caught it
AfterSend(ok) ==
    IF ok THEN JsonObject("ok", "") ELSE JsonObject("error", "str(e)")

channel_send(h, ok) ==
    /\ hook[h].pc = "sending"
    /\ ~LoopBusy /\ Settled
    /\ hook' = [hook EXCEPT ![h] = Return(hook[h], AfterSend(ok))]
    /\ notified' = [notified EXCEPT ![hook[h].n].outcome =
                        IF ok THEN "delivered" ELSE "failed"]
    /\ UNCHANGED <<YOUTUBE_CHANNELS, accounts_json, sent_messages, now, cmd,
                   last, history, budget>>

\* the response is written to the hub and the handler is gone
respond(h) ==
    /\ hook[h].pc = "respond"
    /\ hook' = [hook EXCEPT ![h] = IdleHook]
    /\ UNCHANGED <<YOUTUBE_CHANNELS, accounts_json, sent_messages, now, cmd,
                   notified, last, history, budget>>

----------------------------------------------------------------------------
(* Time *)

\* time passes until the next 10 s bucket begins
Tick ==
    /\ Settled
    /\ budget > 0
    /\ budget' = budget - 1
    /\ now' = (Bucket(now) + 1) * BUCKET_SECONDS
    /\ UNCHANGED <<YOUTUBE_CHANNELS, accounts_json, sent_messages, cmd, hook,
                   notified, last, history>>

----------------------------------------------------------------------------
(* The specification *)

Init ==
    /\ accounts_json \in InitDocs
    /\ YOUTUBE_CHANNELS = load_accounts(accounts_json)
    /\ sent_messages = {}
    /\ now = 0
    /\ cmd = [t \in CmdTasks |-> IdleCmd]
    /\ hook = [h \in HookTasks |-> IdleHook]
    /\ notified = << >>
    /\ last = NoCommand
    /\ history = [loaded |-> YOUTUBE_CHANNELS, applied |-> << >>, received |-> {}]
    /\ budget = MaxEvents

Next ==
    \/ \E t \in CmdTasks, c \in Commands, save \in SaveOutcomes :
            monitor(t, c[1], c[2], c[3], c[4], save)
    \/ \E t \in CmdTasks, r \in HubOutcomes : subscribe_channel(t, r)
    \/ \E t \in CmdTasks : subscribe_sleep(t)
    \/ \E t \in CmdTasks, r \in HubOutcomes : unsubscribe(t, r)
    \/ \E t \in CmdTasks, ok \in BOOLEAN : ctx_send(t, ok)
    \/ \E t \in CmdTasks : cmd_return(t)
    \/ \E h \in HookTasks, c \in Challenges : webhook_verify(h, c)
    \/ \E h \in HookTasks, body \in Bodies, found \in BOOLEAN :
            handle_webhook(h, body, found)
    \/ \E h \in HookTasks, ok \in BOOLEAN : channel_send(h, ok)
    \/ \E h \in HookTasks : respond(h)
    \/ Tick

Spec == Init /\ [][Next]_vars

\* Commands only: longer runs of add and remove commands
InitCommands ==
    /\ accounts_json \in InitDocs
    /\ YOUTUBE_CHANNELS = load_accounts(accounts_json)
    /\ sent_messages = {}
    /\ now = 0
    /\ cmd = [t \in CmdTasks |-> IdleCmd]
    /\ hook = [h \in HookTasks |-> IdleHook]
    /\ notified = << >>
    /\ last = NoCommand
    /\ history = [loaded |-> YOUTUBE_CHANNELS, applied |-> << >>, received |-> {}]
    /\ budget = MaxCmds

NextCommands ==
    \/ \E t \in CmdTasks, c \in AddRemove, save \in SaveOutcomes :
            monitor(t, c[1], c[2], c[3], c[4], save)
    \/ \E t \in CmdTasks, r \in HubOutcomes : subscribe_channel(t, r)
    \/ \E t \in CmdTasks : subscribe_sleep(t)
    \/ \E t \in CmdTasks, r \in HubOutcomes : unsubscribe(t, r)
    \/ \E t \in CmdTasks, ok \in BOOLEAN : ctx_send(t, ok)
    \/ \E t \in CmdTasks : cmd_return(t)
    \/ Tick

SpecCommands == InitCommands /\ [][NextCommands]_vars

\* Commands and status sweeps
InitStatus ==
    /\ accounts_json \in InitDocs
    /\ YOUTUBE_CHANNELS = load_accounts(accounts_json)
    /\ sent_messages = {}
    /\ now = 0
    /\ cmd = [t \in CmdTasks |-> IdleCmd]
    /\ hook = [h \in HookTasks |-> IdleHook]
    /\ notified = << >>
    /\ last = NoCommand
    /\ history = [loaded |-> YOUTUBE_CHANNELS, applied |-> << >>, received |-> {}]
    /\ budget = MaxSweepEvents

NextStatus ==
    \/ \E t \in CmdTasks, c \in AddRemove, save \in SaveOutcomes :
            monitor(t, c[1], c[2], c[3], c[4], save)
    \/ \E t \in CmdTasks, ch \in Chats : status_sweep(t, ch)
    \/ \E t \in CmdTasks, r \in HubOutcomes : subscribe_channel(t, r)
    \/ \E t \in CmdTasks : subscribe_sleep(t)
    \/ \E t \in CmdTasks, r \in HubOutcomes : unsubscribe(t, r)
    \/ \E t \in CmdTasks, ok \in BOOLEAN : ctx_send(t, ok)
    \/ \E t \in CmdTasks : cmd_return(t)
    \/ Tick

SpecStatus == InitStatus /\ [][NextStatus]_vars


----------------------------------------------------------------------------
(* Properties *)

\* a step in which handler t receives the command c = (chat channel, action,
\* platform, channel id) for the supported platform
AddStep(t, c) ==
    /\ \E save \in SaveOutcomes : monitor(t, c[1], c[2], c[3], c[4], save)
    /\ Lower(c[2]) = "add" /\ Lower(c[3]) = "youtube"

RemoveStep(t, c) ==
    /\ \E save \in SaveOutcomes : monitor(t, c[1], c[2], c[3], c[4], save)
    /\ Lower(c[2]) = "remove" /\ Lower(c[3]) = "youtube"

CommandKey(c) == MessageKey(c[1], MonitorCategory(c[2], c[3], c[4]), now)

\* the handler has issued no request to the hub and is not about to
NoHandshake(c) == c.posts = 0 /\ ~Blocking(c)

\* C1, as stated: an add of an id that is in the list replies that the channel
\* is already monitored, leaves the list and accounts.json as they are and
\* issues no subscribe request.
C1_AddPresentReplies ==
    [][\A t \in CmdTasks, c \in Commands :
        AddStep(t, c) /\ c[4] \in Range(YOUTUBE_CHANNELS)
        => /\ cmd'[t].pc = "send" /\ cmd'[t].reply = "already_monitored"
           /\ YOUTUBE_CHANNELS' = YOUTUBE_CHANNELS
           /\ accounts_json' = accounts_json
           /\ NoHandshake(cmd'[t])]_vars

\* C1, amended: an add of an id that is in the list leaves the list and
\* accounts.json as they are and issues no subscribe request; it replies that
\* the channel is already monitored unless the same command was already
\* received from the same chat channel in the same 10 s bucket, and then it
\* returns without any reply.  No handler that replied so ever posts to the hub.
C1_AddPresentNoOp ==
    [][/\ \A t \in CmdTasks, c \in Commands :
            AddStep(t, c) /\ c[4] \in Range(YOUTUBE_CHANNELS)
            => /\ YOUTUBE_CHANNELS' = YOUTUBE_CHANNELS
               /\ accounts_json' = accounts_json
               /\ NoHandshake(cmd'[t])
               /\ IF CommandKey(c) \in sent_messages
                  THEN cmd'[t].pc = "returned" /\ cmd'[t].reply = NONE
                  ELSE cmd'[t].pc = "send" /\ cmd'[t].reply = "already_monitored"
       /\ \A t \in CmdTasks :
            cmd'[t].reply = "already_monitored" => cmd'[t].posts = 0]_vars

\* an add of a monitored id was answered, and not as a duplicate command
C1_Witness ==
    \E t \in CmdTasks :
        /\ cmd[t].pc = "send" /\ cmd[t].reply = "already_monitored"
        /\ cmd[t].id \in Range(YOUTUBE_CHANNELS)
        /\ Lower(cmd[t].action) = "add"

\* C2, as stated: a remove of an id that is not in the list replies that the
\* channel is not monitored, leaves the list and accounts.json as they are and
\* issues no unsubscribe request.
C2_RemoveAbsentReplies ==
    [][\A t \in CmdTasks, c \in Commands :
        RemoveStep(t, c) /\ c[4] \notin Range(YOUTUBE_CHANNELS)
        => /\ cmd'[t].pc = "send" /\ cmd'[t].reply = "not_monitored"
           /\ YOUTUBE_CHANNELS' = YOUTUBE_CHANNELS
           /\ accounts_json' = accounts_json
           /\ NoHandshake(cmd'[t])]_vars

\* C2, amended: a remove of an id that is not in the list leaves the list and
\* accounts.json as they are and issues no unsubscribe request; it replies
\* that the channel is not monitored unless the same command was already
\* received from the same chat channel in the same 10 s bucket, and then it
\* returns without any reply.  No handler that replied so ever posts to the hub.
C2_RemoveAbsentNoOp ==
    [][/\ \A t \in CmdTasks, c \in Commands :
            RemoveStep(t, c) /\ c[4] \notin Range(YOUTUBE_CHANNELS)
            => /\ YOUTUBE_CHANNELS' = YOUTUBE_CHANNELS
               /\ accounts_json' = accounts_json
               /\ NoHandshake(cmd'[t])
               /\ IF CommandKey(c) \in sent_messages
                  THEN cmd'[t].pc = "returned" /\ cmd'[t].reply = NONE
                  ELSE cmd'[t].pc = "send" /\ cmd'[t].reply = "not_monitored"
       /\ \A t \in CmdTasks :
            cmd'[t].reply = "not_monitored" => cmd'[t].posts = 0]_vars

\* a remove of an unmonitored id was answered, and not as a duplicate command
C2_Witness ==
    \E t \in CmdTasks :
        /\ cmd[t].pc = "send" /\ cmd[t].reply = "not_monitored"
        /\ cmd[t].id \notin Range(YOUTUBE_CHANNELS)
        /\ Lower(cmd[t].action) = "remove"


\* the last command received was an add of x, which was not in the list
\* before it, and handler t now receives a remove of x
RemoveAfterAdd(t, c) ==
    /\ RemoveStep(t, c)
    /\ Lower(last.action) = "add" /\ Lower(last.platform) = "youtube"
    /\ last.id = c[4]
    /\ NoDup(last.before) /\ c[4] \notin Range(last.before)

\* C3, as stated: an add of x (not in the duplicate-free list L) followed
\* immediately by a remove of x leaves the list equal to L.
C3_AddRemoveRestores ==
    [][\A t \in CmdTasks, c \in AddRemove :
        RemoveAfterAdd(t, c) => YOUTUBE_CHANNELS' = last.before]_vars

\* C3, amended: an add of x (not in the duplicate-free list L) followed
\* immediately by a remove of x leaves the list equal to L, the other entries
\* in their order, whatever the file system and the hub answered, except when
\* the add was carried out and the remove is skipped as a duplicate of a
\* remove command of the same 10 s bucket: then the list is L with x appended.
C3_AddRemoveUnlessSkipped ==
    [][\A t \in CmdTasks, c \in AddRemove :
        RemoveAfterAdd(t, c)
        => YOUTUBE_CHANNELS' =
               IF ~last.skipped /\ CommandKey(c) \in sent_messages
               THEN ListAppend(last.before, c[4])
               ELSE last.before]_vars

\* an add of b to the list (c, a) was carried out, and the remove of b that
\* followed it was carried out too and is about to post its unsubscribe
C3_Witness ==
    /\ last.action = "remove" /\ last.id = "b" /\ ~last.skipped
    /\ last.before = <<"c", "a", "b">>
    /\ YOUTUBE_CHANNELS = <<"c", "a">>
    /\ \E t \in CmdTasks : cmd[t].pc = "unsub" /\ cmd[t].id = "b"


\* the text of the element `tag` of the entry the body carries, "" if none
EntryField(body, tag) ==
    LET at == {i \in 1..Len(body.elems) :
                  body.elems[i].entry /\ body.elems[i].tag = tag}
    IN  IF at = {} THEN "" ELSE body.elems[CHOOSE i \in at : \A j \in at : i <= j].text

\* the body carries a valid entry: a video id and a title, both non-empty
ValidEntry(body) ==
    /\ body.wellformed
    /\ EntryField(body, "videoId") \notin {"", NONE}
    /\ EntryField(body, "title") \notin {"", NONE}

Contains(message, text) == \E i \in 1..Len(message) : message[i] = text

\* C4, as stated: with the destination channel found, a POST carrying a valid
\* entry (v, t) calls channel.send exactly once, with a message that contains
\* t and a watch URL that contains v, unless a notification for v was already
\* recorded in the same 10 s bucket, and then it sends nothing; a send in
\* flight counts as recorded.
C4_OneMessagePerEntry ==
    [][\A h \in HookTasks, body \in Bodies :
        handle_webhook(h, body, TRUE) /\ ValidEntry(body)
        => LET v == EntryField(body, "videoId")
               t == EntryField(body, "title")
               key == MessageKey(CHANNEL_ID, NotificationCategory(v), now)
           IN  IF \E i \in 1..Len(notified) : notified[i].key = key
               THEN notified' = notified /\ hook'[h].pc = "respond"
               ELSE /\ Len(notified') = Len(notified) + 1
                    /\ hook'[h].pc = "sending"
                    /\ Contains(hook'[h].message, t)
                    /\ Contains(hook'[h].message, v)
                    /\ notified'[Len(notified')].message = hook'[h].message]_vars

\* the body of a parsed document has no title element, or no videoId element
LacksField(body) ==
    /\ body.wellformed
    /\ \/ \A i \in 1..Len(body.elems) : body.elems[i].tag # "title"
       \/ \A i \in 1..Len(body.elems) : body.elems[i].tag # "videoId"

\* C5: a POST whose body has no title element, or no videoId element, returns
\* the error status, calls channel.send not at all and records no dedup key.
C5_MissingFieldRejected ==
    [][\A h \in HookTasks, body \in Bodies, found \in BOOLEAN :
        handle_webhook(h, body, found) /\ LacksField(body)
        => /\ hook'[h].pc = "respond"
           /\ hook'[h].resp.http = HTTP_OK /\ hook'[h].resp.status = "error"
           /\ notified' = notified
           /\ sent_messages' = sent_messages]_vars

\* a POST without a title element is being answered with the error status
C5_Witness ==
    \E h \in HookTasks :
        /\ hook[h].pc = "respond" /\ hook[h].method = "POST"
        /\ hook[h].body.wellformed
        /\ \A i \in 1..Len(hook[h].body.elems) : hook[h].body.elems[i].tag # "title"
        /\ hook[h].body.elems # << >>
        /\ hook[h].resp.status = "error"

\* C6, as stated: when its reply says that subscribing failed, an add has
\* posted to the hub exactly RETRIES times and its id is in the list and in
\* accounts.json.
C6_FailedAddKeepsId ==
    \A t \in CmdTasks :
        cmd[t].pc = "send" /\ cmd[t].reply = "subscribe_failed"
        => /\ cmd[t].posts = RETRIES
           /\ cmd[t].id \in Range(YOUTUBE_CHANNELS)
           /\ accounts_json.state = "json"
           /\ cmd[t].id \in Range(accounts_json.youtube)

\* C7, as stated: the verification GET is answered 200 with exactly the
\* challenge as body.
C7_ChallengeEchoed ==
    \A h \in HookTasks :
        hook[h].pc = "respond" /\ hook[h].method = "GET"
        => hook[h].resp.http = HTTP_OK /\ hook[h].resp.text = hook[h].challenge

\* the payload parses to an entry: both elements are found
ParsesToEntry(body) ==
    /\ body.wellformed
    /\ ~MissingField(Find(body.elems, "yt", "videoId"), Find(body.elems, "atom", "title"))

\* C8, as stated: a POST whose payload parses to a valid entry is answered
\* with the success status, whatever became of the chat delivery.
C8_AlwaysAcknowledged ==
    \A h \in HookTasks :
        /\ hook[h].pc = "respond" /\ hook[h].method = "POST"
        /\ ParsesToEntry(hook[h].body) /\ ValidEntry(hook[h].body)
        => hook[h].resp.http = HTTP_OK /\ hook[h].resp.status = "ok"

\* C9, as stated: a remove of an id that is in the list takes it out of the
\* list and of accounts.json before the unsubscribe request is posted, and
\* the request, whatever its outcome, changes neither and is followed by a
\* reply.
C9_RemoveBeforeUnsubscribe ==
    [][/\ \A t \in CmdTasks, c \in Commands :
            RemoveStep(t, c) /\ c[4] \in Range(YOUTUBE_CHANNELS)
            => /\ c[4] \notin Range(YOUTUBE_CHANNELS')
               /\ accounts_json'.state = "json"
               /\ c[4] \notin Range(accounts_json'.youtube)
               /\ cmd'[t].pc = "unsub" /\ cmd'[t].posts = 0
       /\ \A t \in CmdTasks, r \in HubOutcomes :
            unsubscribe(t, r)
            => /\ cmd[t].id \notin Range(YOUTUBE_CHANNELS')
               /\ accounts_json'.state = "json"
               /\ cmd[t].id \notin Range(accounts_json'.youtube)
               /\ cmd'[t].pc = "send"
               /\ (r.exc \/ r.status # ACCEPTED
                   => cmd'[t].reply \in {"unsubscribe_failed", "unsubscribe_error"})]_vars

\* C10, as stated: an add of an id that is not in the list appends it as the
\* last element, writes the list to accounts.json and only then posts the
\* subscribe request.
C10_AppendThenSubscribe ==
    [][\A t \in CmdTasks, c \in Commands :
        AddStep(t, c) /\ c[4] \notin Range(YOUTUBE_CHANNELS)
        => /\ YOUTUBE_CHANNELS' = Append(YOUTUBE_CHANNELS, c[4])
           /\ accounts_json' = Doc("json", YOUTUBE_CHANNELS')
           /\ cmd'[t].pc = "post" /\ cmd'[t].posts = 0]_vars

\* a command is inside the fixed delay of subscribe_channel, between a failed
\* attempt and the next one
InRetryDelay == \E t \in CmdTasks : cmd[t].pc = "sleep_retry"

\* C11, as stated: while a command waits in the retry delay of its subscribe
\* handshake, a webhook request that arrives is not stalled: the
\* verification GET and the content POST can both be handled.
C11_RequestsNotStalled ==
    InRetryDelay /\ budget > 0
    => /\ ENABLED (\E h \in HookTasks, c \in Challenges : webhook_verify(h, c))
       /\ ENABLED (\E h \in HookTasks, body \in Bodies, found \in BOOLEAN :
                      handle_webhook(h, body, found))

\* the list after the mutation m, carried out as monitor carries it out
Apply(l, m) ==
    IF m.action = "add"
    THEN IF m.id \in Range(l) THEN l ELSE ListAppend(l, m.id)
    ELSE IF m.id \in Range(l) THEN ListRemove(l, m.id) ELSE l

RECURSIVE ApplyAll(_, _)
ApplyAll(l, ms) == IF ms = << >> THEN l ELSE ApplyAll(Apply(l, Head(ms)), Tail(ms))

\* the serial orders of the mutations ms
Orders(ms) ==
    {[i \in 1..Len(ms) |-> ms[p[i]]] : p \in Permutations(1..Len(ms))}

\* no command and no request is in flight
Quiescent ==
    /\ \A t \in CmdTasks : cmd[t].pc = "idle"
    /\ \A h \in HookTasks : hook[h].pc = "idle"

\* C12, as stated: once the commands and sweeps triggered have all ended, the
\* list and accounts.json both hold the result of applying the mutations that
\* were carried out, in some serial order, to the list loaded at start.
C12_MutationsSerialized ==
    Quiescent /\ history.applied # << >>
    => \E ms \in Orders(history.applied) :
            /\ YOUTUBE_CHANNELS = ApplyAll(history.loaded, ms)
            /\ accounts_json = Doc("json", ApplyAll(history.loaded, ms))

\* C13: the list loaded at start being free of duplicates, the list holds no
\* id more than once in any state reached by monitor commands and status
\* sweeps, whatever their order and interleaving.
C13_NoDuplicates == NoDup(history.loaded) => NoDup(YOUTUBE_CHANNELS)

\* an add was carried out on the loaded list (c, a), and a second add of the
\* id it appended, received in a later 10 s bucket, is refused
C13_Witness ==
    /\ history.loaded = <<"c", "a">>
    /\ history.applied = <<Mutation("add", "b")>>
    /\ YOUTUBE_CHANNELS = <<"c", "a", "b">>
    /\ last.action = "add" /\ last.id = "b" /\ ~last.skipped
    /\ last.before = YOUTUBE_CHANNELS

\* the replies of an add or a remove that changed the list
MutationReplies ==
    {"added", "subscribe_failed", "removed", "unsubscribe_failed", "unsubscribe_error"}

\* C14, as stated: when an add or a remove that changed the list has
\* completed and replies, accounts.json holds exactly the list, the same ids
\* in the same order, also when the write of the file failed.
C14_PersistedEqualsMemory ==
    \A t \in CmdTasks :
        cmd[t].pc = "send" /\ cmd[t].reply \in MutationReplies
        => accounts_json = Doc("json", YOUTUBE_CHANNELS)

\* a content delivery that parses to an entry arrives at handler h while the
\* destination channel is found
DeliveryStep(h, body) == handle_webhook(h, body, TRUE) /\ ParsesToEntry(body)

\* the video id the handler reads from the body
VideoIdOf(body) == body.elems[Find(body.elems, "yt", "videoId")].text

\* a notification was recorded for the destination channel in the bucket of now
NotifiedInBucket == \E i \in 1..Len(notified) : notified[i].key[3] = Bucket(now)

\* a notification for video v was recorded in the bucket of now
NotifiedVideoInBucket(v) ==
    \E i \in 1..Len(notified) :
        notified[i].key[3] = Bucket(now) /\ notified[i].message[5] = Str(v)

\* C15, as stated: a content delivery is skipped whenever a notification to
\* the destination channel was already recorded in the same 10 s bucket,
\* whichever video it carries.
C15_OneNotificationPerBucket ==
    [][\A h \in HookTasks, body \in Bodies :
        DeliveryStep(h, body) /\ NotifiedInBucket
        => notified' = notified /\ hook'[h].pc = "respond"]_vars

\* C15, amended: the dedup key of a content delivery is (destination channel,
\* "notification-<video id>", 10 s bucket): a delivery is skipped exactly
\* when a notification for the same video id was already recorded in the
\* same bucket; one that carries another video id is sent.
C15_OneNotificationPerVideo ==
    [][\A h \in HookTasks, body \in Bodies :
        DeliveryStep(h, body)
        => IF NotifiedVideoInBucket(VideoIdOf(body))
           THEN notified' = notified /\ hook'[h].pc = "respond"
           ELSE /\ Len(notified') = Len(notified) + 1
                /\ hook'[h].pc = "sending"
                /\ notified'[Len(notified')].key =
                       <<CHANNEL_ID, <<"notification", Str(VideoIdOf(body)), "", "">>,
                         now \div BUCKET_SECONDS>>]_vars

\* two notifications of one 10 s bucket, for two videos
C15_Witness ==
    /\ Len(notified) = 2
    /\ notified[1].key[3] = notified[2].key[3]
    /\ notified[1].message[5] # notified[2].message[5]

\* the body has both elements, and the video id or the title is empty
EmptyField(body) ==
    /\ ParsesToEntry(body)
    /\ \/ VideoIdOf(body) = NONE
       \/ body.elems[Find(body.elems, "atom", "title")].text = NONE

\* C16, as stated: a content delivery whose video id or title is present but
\* empty is answered with the error status and sends nothing; no message is
\* ever sent with an empty title or an empty video id.
C16_EmptyFieldRejected ==
    /\ \A h \in HookTasks :
            hook[h].method = "POST" /\ EmptyField(hook[h].body)
            => /\ hook[h].pc = "respond"
               /\ hook[h].resp.status = "error"
    /\ \A i \in 1..Len(notified) :
            notified[i].message[2] # Str(NONE) /\ notified[i].message[5] # Str(NONE)

\* handler t takes a step of a status command
SweepStep(t) ==
    /\ cmd'[t] # cmd[t]
    /\ cmd[t].action = STATUS \/ cmd'[t].action = STATUS

\* the lines ls report the first Len(ls) entries of the list, in list order,
\* each after at least one and at most RETRIES subscribe requests
ReportsPrefix(ls, channels) ==
    /\ Len(ls) <= Len(channels)
    /\ \A j \in 1..Len(ls) :
            /\ ls[j].id = channels[j]
            /\ ls[j].posts \in 1..RETRIES

\* C17: a status sweep leaves the list and accounts.json as they are.  Over an
\* empty list it issues no handshake.  Over a non-empty list it calls
\* subscribe_channel for the first entry and then, whatever the call returned,
\* for the next one, in list order; each call adds the line of its entry,
\* success exactly when a request was accepted; the report is sent when it
\* has one line for every entry of the list.
C17_SweepCoversList ==
    [][\A t \in CmdTasks :
        SweepStep(t)
        => /\ UNCHANGED <<YOUTUBE_CHANNELS, accounts_json>>
           /\ cmd[t].pc = "idle" /\ cmd'[t].pc # "returned"
              => IF YOUTUBE_CHANNELS = << >>
                 THEN cmd'[t].pc = "send" /\ cmd'[t].reply = "none_monitored"
                 ELSE cmd'[t].pc = "post" /\ cmd'[t].i = 1
           /\ YOUTUBE_CHANNELS = << >> => NoHandshake(cmd'[t])
           /\ ReportsPrefix(cmd'[t].lines, YOUTUBE_CHANNELS)
           /\ Blocking(cmd'[t])
              => /\ cmd'[t].i = Len(cmd'[t].lines) + 1
                 /\ cmd'[t].i \in 1..Len(YOUTUBE_CHANNELS)
                 /\ cmd'[t].id = YOUTUBE_CHANNELS[cmd'[t].i]
           /\ Len(cmd'[t].lines) = Len(cmd[t].lines) + 1
              => cmd'[t].lines[Len(cmd'[t].lines)].ok = cmd[t].accepted
           /\ cmd[t].pc # "send" /\ cmd'[t].reply = "report"
              => Len(cmd'[t].lines) = Len(YOUTUBE_CHANNELS)]_vars

\* the report of a sweep over (c, a): the handshake of c failed after RETRIES
\* requests, the handshake of a was issued all the same and was accepted
C17_Witness ==
    \E t \in CmdTasks :
        /\ cmd[t].pc = "send" /\ cmd[t].reply = "report"
        /\ YOUTUBE_CHANNELS = <<"c", "a">>
        /\ Len(cmd[t].lines) = 2
        /\ cmd[t].lines[1] = [id |-> "c", ok |-> FALSE, posts |-> RETRIES]
        /\ cmd[t].lines[2].id = "a" /\ cmd[t].lines[2].ok

\* C18: whatever the hub answers, a call of subscribe_channel posts at most
\* RETRIES requests and none after an accepted one; it returns True (the
\* "added" reply of monitor, a success line of status) exactly when a request
\* was accepted, and False only after RETRIES requests; it sleeps the fixed
\* delay once after each failed request that another request follows, and not
\* after the last one.
C18_RetryPolicy ==
    \A t \in CmdTasks :
        LET c == cmd[t]
        IN  /\ c.posts <= RETRIES
            /\ c.pc = "post"
               => ~c.accepted /\ c.posts < RETRIES /\ c.delays = c.posts
            /\ c.pc = "sleep_retry"
               => ~c.accepted /\ c.posts < RETRIES /\ c.delays = c.posts - 1
            /\ c.pc = "sleep_ok"
               => c.accepted /\ c.posts >= 1 /\ c.delays = c.posts - 1
            /\ c.reply \in {"added", "report"} /\ c.accepted
               => c.posts >= 1 /\ c.delays = c.posts - 1
            /\ c.reply = "added" => c.accepted
            /\ c.reply = "subscribe_failed" \/ (c.reply = "report" /\ ~c.accepted)
               => ~c.accepted /\ c.posts = RETRIES /\ c.delays = RETRIES - 1
            /\ \A j \in 1..Len(c.lines) :
                    /\ c.lines[j].posts \in 1..RETRIES
                    /\ ~c.lines[j].ok => c.lines[j].posts = RETRIES
            /\ c.reply = "report" => c.lines[Len(c.lines)].ok = c.accepted

\* an add whose first request failed and whose second request was accepted
\* after one delay
C18_Witness ==
    \E t \in CmdTasks :
        /\ cmd[t].pc = "send" /\ cmd[t].reply = "added"
        /\ cmd[t].posts = 2 /\ cmd[t].delays = 1 /\ cmd[t].accepted

\* the send of a notification for video v, recorded in the bucket of now, failed
FailedInBucket(v) ==
    \E i \in 1..Len(notified) :
        /\ notified[i].outcome = "failed"
        /\ notified[i].key[3] = Bucket(now) /\ notified[i].message[5] = Str(v)

\* C19: the key of a notification is in the cache when channel.send is
\* awaited, and no key ever leaves the cache.  When the send for video v has
\* failed, a later POST for v in the same 10 s bucket is skipped as a
\* duplicate, and no second send for v is made in a bucket.  A POST that does
\* not find the destination channel records no key and sends nothing, and a
\* POST for a video with no notification recorded in the bucket is sent.
C19_KeyOutlivesFailedSend ==
    [][/\ sent_messages \subseteq sent_messages'
       /\ \A h \in HookTasks :
            hook'[h].pc = "sending" => notified'[hook'[h].n].key \in sent_messages'
       /\ \A h \in HookTasks :
            channel_send(h, FALSE)
            => /\ notified'[hook[h].n].outcome = "failed"
               /\ notified'[hook[h].n].key \in sent_messages'
       /\ \A h \in HookTasks, body \in Bodies :
            DeliveryStep(h, body) /\ FailedInBucket(VideoIdOf(body))
            => /\ notified' = notified
               /\ hook'[h].pc = "respond" /\ hook'[h].skipped
       /\ \A i, j \in 1..Len(notified') :
            /\ notified'[i].key[3] = notified'[j].key[3]
            /\ notified'[i].message[5] = notified'[j].message[5]
            => i = j
       /\ \A h \in HookTasks, body \in Bodies :
            handle_webhook(h, body, FALSE)
            => sent_messages' = sent_messages /\ notified' = notified
       /\ \A h \in HookTasks, body \in Bodies :
            DeliveryStep(h, body) /\ ~NotifiedVideoInBucket(VideoIdOf(body))
            => hook'[h].pc = "sending" /\ Len(notified') = Len(notified) + 1]_vars

\* the send for a video failed, and a second POST for it, in the same bucket
\* and with the channel found, is answered without a send
C19_Witness ==
    \E h \in HookTasks :
        /\ hook[h].pc = "respond" /\ hook[h].skipped
        /\ FailedInBucket(VideoIdOf(hook[h].body))
        /\ Len(notified) = 1

\* handler t receives the command c, which was already received from the
\* same chat channel, letter for letter, in the 10 s bucket of now
DuplicateStep(t, c) ==
    /\ \E save \in SaveOutcomes : monitor(t, c[1], c[2], c[3], c[4], save)
    /\ Received(c[1], c[2], c[3], c[4], now) \in history.received

\* C20: a monitor command already received from the same chat channel with
\* the same action, platform and channel id in the same 10 s bucket returns
\* at once, whatever its platform and action and whatever the list holds: no
\* reply, no change of the list or of accounts.json, no request to the hub.
\* No step removes a key from the dedup cache.
C20_DuplicateCommandSkipped ==
    [][/\ sent_messages \subseteq sent_messages'
       /\ \A t \in CmdTasks, c \in Commands :
            DuplicateStep(t, c)
            => /\ cmd'[t].pc = "returned" /\ cmd'[t].reply = NONE
               /\ NoHandshake(cmd'[t])
               /\ YOUTUBE_CHANNELS' = YOUTUBE_CHANNELS
               /\ accounts_json' = accounts_json
               /\ sent_messages' = sent_messages]_vars

\* a command for an unsupported platform, received twice in one bucket, is
\* skipped the second time without the reply of the platform check
C20_Witness ==
    \E t \in CmdTasks :
        /\ cmd[t].pc = "returned" /\ cmd[t].reply = NONE
        /\ Lower(cmd[t].platform) # "youtube"
        /\ last.skipped /\ last.platform = cmd[t].platform

====
